---- MODULE Spec2Model ----
(***************************************************************************)
(* Chat orchestration core of the tutoring backend:                        *)
(*   ConversationMemory (src/main/agentcore_setup/memory.py),              *)
(*   PedagogyMode       (src/main/dtos/PedagogyMode.py),                   *)
(*   PromptService      (src/main/service/PromptService.py),               *)
(*   ChatService        (src/main/service/ChatService.py).                 *)
(*                                                                         *)
(* Representation.                                                         *)
(*  - Optional[T] is a set: {} is None, {x} is the value x.                *)
(*  - A text is a sequence of symbols; a symbol is a run of characters     *)
(*    that the regular expressions of _strip_reasoning_tags treat as a     *)
(*    unit ("<reasoning", "</reasoning", ">", "\n", " ", a letter).        *)
(*  - A Python dict with optional keys is a record whose DOMAIN holds the  *)
(*    keys that are present.                                               *)
(*  - self.sessions is an insertion-ordered dict: memory.sessions is the   *)
(*    mapping and memory.order the keys in insertion order.                *)
(*  - datetime.now(timezone.utc).isoformat() is an integer reading of a    *)
(*    non-decreasing clock; comparing two such strings (same offset,       *)
(*    four-digit year) orders them as the instants they denote.            *)
(*  - The "timestamp" field of a message is written and never read by the  *)
(*    code under study; it is not part of the message record.              *)
(***************************************************************************)
EXTENDS Integers, Sequences, FiniteSets, TLC

VARIABLES memory, now, prompt_cache, prompt_files, max_history_messages, uuids,
          ret, turn, threads

vars == <<memory, now, prompt_cache, prompt_files, max_history_messages, uuids,
          ret, turn, threads>>

(***************************************************************************)
(* Bounds of the model                                                     *)
(***************************************************************************)
\* largest clock reading; the clock stays there once reached
MaxTime == 1
\* no direct add_message call grows a session beyond this many messages
MaxMsgs == 3
\* no chat turn is started on a store that holds this many exchanges
MaxTurns == 3
\* ConversationMemory(max_sessions=...): capacity of the store under study
max_sessions == 2
\* ChatService(max_history_messages=...): the positive history window under study
HistoryWindow == 2
\* number of uuid4() values drawn in a behaviour
MaxUuid == 1
\* messages stored by calls made before the two concurrent requests
MaxSerial == 2
\* length, in symbols, of the model outputs given to _strip_reasoning_tags
MaxTextLen == 5
\* length, in characters, of one retrieved chunk
MaxChunkLen == 3
\* number of chunks in one search result
MaxChunks == 2

(***************************************************************************)
(* Optional values                                                         *)
(***************************************************************************)
None == {}

Some(x) == {x}

Get(o) == CHOOSE x \in o : TRUE

Min(a, b) == IF a <= b THEN a ELSE b

(***************************************************************************)
(* Input domains                                                           *)
(***************************************************************************)
\* session ids a client can supply
ClientIds == {"s1", "s2"}

\* values uuid.uuid4() can return
UuidIds == {"u" \o ToString(i) : i \in 1..MaxUuid}

SessionIds == ClientIds \cup UuidIds

RECURSIVE SumTokens(_)
\* sum(msg.get("tokens", 0) for msg in messages)
SumTokens(messages) ==
    IF messages = <<>> THEN 0
    ELSE (IF "tokens" \in DOMAIN Head(messages) THEN Head(messages).tokens ELSE 0)
         + SumTokens(Tail(messages))

\* messages[-k:] for k > 0, and for k = 0 (where -0 == 0 selects everything)
LastSlice(messages, k) ==
    IF k = 0 THEN messages
    ELSE IF k > 0
         THEN SubSeq(messages, (IF Len(messages) > k THEN Len(messages) - k + 1 ELSE 1),
                     Len(messages))
         \* messages[-k:] with k < 0 is messages[|k|:]
         ELSE SubSeq(messages, Min(-k, Len(messages)) + 1, Len(messages))

RECURSIVE CountMessages(_, _)
\* sum(len(s["messages"]) for s in self.sessions.values()), from the i-th key on
CountMessages(M, i) ==
    IF i > Len(M.order) THEN 0
    ELSE Len(M.sessions[M.order[i]].messages) + CountMessages(M, i + 1)

\* removal of one key from the insertion-ordered dict
DelKey(M, sid) ==
    [sessions |-> [s \in (DOMAIN M.sessions) \ {sid} |-> M.sessions[s]],
     order |-> SelectSeq(M.order, LAMBDA s : s # sid)]

\* faulty variant of the victim choice: the session inserted first
FirstInsertedSession(M) == M.order[1]

\* min(self.sessions.items(), key=lambda x: x[1]["last_accessed"])[0]:
\* the first key, in insertion order, whose last_accessed is minimal
OldestSession(M) ==
    LET isMin(s) == \A o \in DOMAIN M.sessions :
                        M.sessions[s].last_accessed <= M.sessions[o].last_accessed
        i == CHOOSE j \in 1..Len(M.order) :
                 /\ isMin(M.order[j])
                 /\ \A h \in 1..(j - 1) : ~isMin(M.order[h])
    IN M.order[i]

\* faulty variant of _create_session: no eviction at capacity
CreateSessionNoEviction(M, sid, t) ==
    [sessions |-> (sid :> [messages |-> <<>>, created_at |-> t, last_accessed |-> t,
                           total_tokens |-> 0, pedagogy_mode |-> "explanatory"])
                  @@ M.sessions,
     order |-> IF sid \in DOMAIN M.sessions THEN M.order ELSE Append(M.order, sid)]

\* _create_session: self.sessions[session_id] = {...} (a key already present
\* keeps its place in the dict and gets the fresh entry)
InsertSession(M, sid, t) ==
    [sessions |-> (sid :> [messages |-> <<>>, created_at |-> t, last_accessed |-> t,
                           total_tokens |-> 0, pedagogy_mode |-> "explanatory"])
                  @@ M.sessions,
     order |-> IF sid \in DOMAIN M.sessions THEN M.order ELSE Append(M.order, sid)]

\* ConversationMemory._create_session
CreateSession(M, sid, t) ==
    LET M1 == IF Cardinality(DOMAIN M.sessions) >= max_sessions
              THEN DelKey(M, OldestSession(M))
              ELSE M
        fresh == [messages |-> <<>>, created_at |-> t, last_accessed |-> t,
                  total_tokens |-> 0, pedagogy_mode |-> "explanatory"]
    IN [sessions |-> (sid :> fresh) @@ M1.sessions,
        order |-> IF sid \in DOMAIN M1.sessions THEN M1.order ELSE Append(M1.order, sid)]

\* the message dict built by add_message
MakeMessage(role, content, tokens, context_ids) ==
    [role |-> role, content |-> content]
      @@ (IF tokens # None THEN [tokens |-> Get(tokens)] ELSE <<>>)
      @@ (IF context_ids # None THEN [context_ids |-> Get(context_ids)] ELSE <<>>)

\* ConversationMemory.add_message; tc is the clock reading of a creation,
\* ta the later reading stored in last_accessed
AddMessage(M, sid, role, content, tokens, context_ids, tc, ta) ==
    LET M1 == IF sid \notin DOMAIN M.sessions THEN CreateSession(M, sid, tc) ELSE M
        s == M1.sessions[sid]
        s1 == [s EXCEPT !.total_tokens = IF tokens # None THEN @ + Get(tokens) ELSE @,
                        !.messages = Append(@, MakeMessage(role, content, tokens, context_ids)),
                        !.last_accessed = ta]
    IN [M1 EXCEPT !.sessions[sid] = s1]

\* a get_history that cuts the window from the old end: messages[:max_messages]
GetHistoryOldest(M, sid, max_messages) ==
    IF sid \notin DOMAIN M.sessions THEN <<>>
    ELSE LET messages == M.sessions[sid].messages
         IN IF max_messages # None /\ Get(max_messages) > 0
                /\ Len(messages) > Get(max_messages)
            THEN SubSeq(messages, 1, Get(max_messages))
            ELSE messages

\* ConversationMemory.get_history: the returned list
GetHistory(M, sid, max_messages) ==
    IF sid \notin DOMAIN M.sessions THEN <<>>
    ELSE LET messages == M.sessions[sid].messages
         IN IF max_messages # None /\ Get(max_messages) > 0
                /\ Len(messages) > Get(max_messages)
            THEN LastSlice(messages, Get(max_messages))
            ELSE messages

\* a get_history that makes the session it is asked about
TouchHistoryCreating(M, sid, t) ==
    IF sid \notin DOMAIN M.sessions
    THEN [sessions |-> (sid :> [messages |-> <<>>, created_at |-> t, last_accessed |-> t,
                                total_tokens |-> 0, pedagogy_mode |-> "explanatory"])
                       @@ M.sessions,
          order |-> Append(M.order, sid)]
    ELSE [M EXCEPT !.sessions[sid].last_accessed = t]

\* ConversationMemory.get_history: its effect on the store
TouchHistory(M, sid, t) ==
    IF sid \notin DOMAIN M.sessions THEN M
    ELSE [M EXCEPT !.sessions[sid].last_accessed = t]

\* ConversationMemory.session_exists
SessionExists(M, sid) == sid \in DOMAIN M.sessions

\* ConversationMemory.get_session_info ({} when the session is unknown)
GetSessionInfo(M, sid) ==
    IF sid \notin DOMAIN M.sessions THEN None
    ELSE Some([session_id |-> sid,
               message_count |-> Len(M.sessions[sid].messages),
               created_at |-> M.sessions[sid].created_at,
               last_accessed |-> M.sessions[sid].last_accessed,
               total_tokens |-> M.sessions[sid].total_tokens,
               pedagogy_mode |-> M.sessions[sid].pedagogy_mode])

\* ConversationMemory.list_sessions: one info dict per key, in dict order
ListSessions(M) == [i \in 1..Len(M.order) |-> Get(GetSessionInfo(M, M.order[i]))]

\* a set_pedagogy_mode that stores the default for a value outside the enum
SetPedagogyModeValidated(M, sid, mode, t) ==
    LET M1 == IF sid \notin DOMAIN M.sessions THEN CreateSession(M, sid, t) ELSE M
    IN [M1 EXCEPT !.sessions[sid].pedagogy_mode =
                      IF mode \in {"socratic", "explanatory", "debugging", "assessment",
                                   "review"}
                      THEN mode ELSE "explanatory"]

\* ConversationMemory.set_pedagogy_mode
SetPedagogyMode(M, sid, mode, t) ==
    LET M1 == IF sid \notin DOMAIN M.sessions THEN CreateSession(M, sid, t) ELSE M
    IN [M1 EXCEPT !.sessions[sid].pedagogy_mode = mode]

\* ConversationMemory.get_pedagogy_mode
GetPedagogyMode(M, sid) ==
    IF sid \notin DOMAIN M.sessions THEN "explanatory"
    ELSE M.sessions[sid].pedagogy_mode

\* a prune that also removes the sessions last accessed exactly at the cutoff
SessionsToRemoveInclusive(M, max_age_hours, t) ==
    {s \in DOMAIN M.sessions : M.sessions[s].last_accessed <= t - max_age_hours}

\* ConversationMemory.prune_old_sessions: the ids removed
SessionsToRemove(M, max_age_hours, t) ==
    {s \in DOMAIN M.sessions : M.sessions[s].last_accessed < t - max_age_hours}

\* ConversationMemory.prune_old_sessions: the store afterwards
PruneOldSessions(M, max_age_hours, t) ==
    LET gone == SessionsToRemove(M, max_age_hours, t)
    IN [sessions |-> [s \in (DOMAIN M.sessions) \ gone |-> M.sessions[s]],
        order |-> SelectSeq(M.order, LAMBDA s : s \notin gone)]

\* a clear_session that reports a deletion whatever it found
ClearSessionAlwaysTrue(M, sid) == TRUE

\* ConversationMemory.clear_session: the returned flag
ClearSessionResult(M, sid) == sid \in DOMAIN M.sessions

\* ConversationMemory.clear_session: the store afterwards
ClearSession(M, sid) == IF sid \in DOMAIN M.sessions THEN DelKey(M, sid) ELSE M

\* ConversationMemory.truncate_session_history: the returned count
TruncateCount(M, sid, max_messages) ==
    IF sid \notin DOMAIN M.sessions THEN 0
    ELSE IF Len(M.sessions[sid].messages) <= max_messages THEN 0
    ELSE Len(M.sessions[sid].messages) - max_messages

\* faulty variant of truncate_session_history: total_tokens is left as it was
TruncateKeepingTotal(M, sid, max_messages) ==
    IF sid \notin DOMAIN M.sessions THEN M
    ELSE IF Len(M.sessions[sid].messages) <= max_messages THEN M
    ELSE [M EXCEPT !.sessions[sid].messages = LastSlice(@, max_messages)]

\* ConversationMemory.truncate_session_history: the store afterwards
TruncateSessionHistory(M, sid, max_messages) ==
    IF sid \notin DOMAIN M.sessions THEN M
    ELSE IF Len(M.sessions[sid].messages) <= max_messages THEN M
    ELSE LET kept == LastSlice(M.sessions[sid].messages, max_messages)
         IN [M EXCEPT !.sessions[sid].messages = kept,
                      !.sessions[sid].total_tokens = SumTokens(kept)]

(***************************************************************************)
(* Texts                                                                   *)
(***************************************************************************)
\* the heads of an opening tag, in the letter cases of the input domain
OpenHeads == {"<reasoning", "<REASONING"}

\* the heads of a closing tag
CloseHeads == {"</reasoning", "</REASONING"}

Whitespace == {" ", "\n"}

\* text[i:] starts with <reasoning> (re.IGNORECASE)
IsOpenAt(text, i) == i + 1 <= Len(text) /\ text[i] \in OpenHeads /\ text[i + 1] = ">"

\* text[i:] starts with </reasoning> (re.IGNORECASE)
IsCloseAt(text, i) == i + 1 <= Len(text) /\ text[i] \in CloseHeads /\ text[i + 1] = ">"

RECURSIVE RemoveSpans(_)
\* re.sub(r'<reasoning>.*?</reasoning>', '', text, flags=IGNORECASE | DOTALL)
RemoveSpans(text) ==
    IF text = <<>> THEN <<>>
    ELSE IF IsOpenAt(text, 1) /\ \E j \in 3..Len(text) : IsCloseAt(text, j)
         THEN LET j == CHOOSE k \in 3..Len(text) :
                           IsCloseAt(text, k) /\ \A h \in 3..(k - 1) : ~IsCloseAt(text, h)
              IN RemoveSpans(SubSeq(text, j + 2, Len(text)))
         ELSE <<Head(text)>> \o RemoveSpans(Tail(text))

RECURSIVE RemoveTags(_)
\* re.sub(r'</?reasoning>', '', cleaned, flags=IGNORECASE)
RemoveTags(text) ==
    IF text = <<>> THEN <<>>
    ELSE IF IsOpenAt(text, 1) \/ IsCloseAt(text, 1)
         THEN RemoveTags(SubSeq(text, 3, Len(text)))
         ELSE <<Head(text)>> \o RemoveTags(Tail(text))

RECURSIVE CollapseNewlines(_)
\* re.sub(r'\n{3,}', '\n\n', cleaned)
CollapseNewlines(text) ==
    IF text = <<>> THEN <<>>
    ELSE IF Head(text) # "\n" THEN <<Head(text)>> \o CollapseNewlines(Tail(text))
    ELSE LET run == CHOOSE k \in 1..Len(text) :
                        /\ \A h \in 1..k : text[h] = "\n"
                        /\ (k = Len(text) \/ text[k + 1] # "\n")
         IN (IF run >= 3 THEN <<"\n", "\n">> ELSE SubSeq(text, 1, run))
            \o CollapseNewlines(SubSeq(text, run + 1, Len(text)))

RECURSIVE LStrip(_)
LStrip(text) ==
    IF text # <<>> /\ Head(text) \in Whitespace THEN LStrip(Tail(text)) ELSE text

RECURSIVE RStrip(_)
RStrip(text) ==
    IF text # <<>> /\ text[Len(text)] \in Whitespace
    THEN RStrip(SubSeq(text, 1, Len(text) - 1)) ELSE text

\* str.strip()
StripWs(text) == RStrip(LStrip(text))

\* ChatService._strip_reasoning_tags
StripReasoningTags(text) == StripWs(CollapseNewlines(RemoveTags(RemoveSpans(text))))

RECURSIVE JoinTexts(_, _)
\* sep.join(parts)
JoinTexts(parts, sep) ==
    IF parts = <<>> THEN <<>>
    ELSE IF Len(parts) = 1 THEN parts[1]
    ELSE parts[1] \o sep \o JoinTexts(Tail(parts), sep)

\* ConversationMemory.get_formatted_history: the returned text
GetFormattedHistory(M, sid, max_messages) ==
    LET history == GetHistory(M, sid, max_messages)
        line(msg) == <<IF msg.role = "user" THEN "Student" ELSE "Tutor", ":", " ">>
                     \o msg.content
    IN IF history = <<>> THEN <<>>
       ELSE JoinTexts(<< <<"Previous conversation:">> >>
                        \o [i \in 1..Len(history) |-> line(history[i])],
                      <<"\n">>)

\* text[:n]
Prefix(text, n) == SubSeq(text, 1, Min(n, Len(text)))

(***************************************************************************)
(* PedagogyMode                                                            *)
(***************************************************************************)
\* the values of the PedagogyMode enumeration, in declaration order
PedagogyModeValues == <<"socratic", "explanatory", "debugging", "assessment", "review">>

PedagogyModeSet == {PedagogyModeValues[i] : i \in 1..Len(PedagogyModeValues)}

\* str.lower() on the mode strings of the input domain ("Debugging" is the
\* only one that is not already lower case)
Lower(str) == IF str = "Debugging" THEN "debugging" ELSE str

\* PedagogyMode.from_string: Some(value), or None for ValueError
FromString(mode_str) ==
    IF mode_str = None THEN Some("explanatory")
    ELSE IF Lower(Get(mode_str)) \in PedagogyModeSet THEN Some(Lower(Get(mode_str)))
    ELSE None

\* PedagogyMode.get_prompt_filename
GetPromptFilename(mode) == mode \o "_mode_prompt.md"

(***************************************************************************)
(* PromptService                                                           *)
(***************************************************************************)
\* PromptService.validate_mode
ValidateMode(mode_str) == FromString(mode_str)

\* a get_mode_prompt that reads the resource on every call
GetModePromptUncached(cache, files, mode) ==
    IF GetPromptFilename(mode) \notin DOMAIN files THEN None
    ELSE Some(files[GetPromptFilename(mode)])

\* PromptService.get_mode_prompt for an enum value: the returned text, or
\* None for FileNotFoundError
GetModePrompt(cache, files, mode) ==
    IF mode \in DOMAIN cache THEN Some(cache[mode])
    ELSE IF GetPromptFilename(mode) \notin DOMAIN files THEN None
    ELSE Some(files[GetPromptFilename(mode)])

\* PromptService.get_mode_prompt: the cache afterwards
CacheAfterGet(cache, files, mode) ==
    IF mode \in DOMAIN cache THEN cache
    ELSE IF GetPromptFilename(mode) \notin DOMAIN files THEN cache
    ELSE (mode :> files[GetPromptFilename(mode)]) @@ cache

RECURSIVE PreloadFrom(_, _, _)
\* PromptService.preload_all_prompts from the i-th mode on: the cache when it
\* returns or raises (the first missing file stops the loop)
PreloadFrom(cache, files, i) ==
    IF i > Len(PedagogyModeValues) THEN cache
    ELSE IF GetModePrompt(cache, files, PedagogyModeValues[i]) = None THEN cache
    ELSE PreloadFrom(CacheAfterGet(cache, files, PedagogyModeValues[i]), files, i + 1)

\* get_prompt_service: the cache of the singleton after its first use
PreloadAllPrompts(files) == PreloadFrom(<<>>, files, 1)

(***************************************************************************)
(* ChatService                                                             *)
(***************************************************************************)
\* "\n---\n": the separator of the retrieved chunks
ChunkSeparator == <<"\n", "-", "-", "-", "\n">>

\* "\n\n---\n\n": between the preamble and the mode instructions
SystemSeparator == <<"\n", "\n", "-", "-", "-", "\n", "\n">>

\* DEFAULT_SYSTEM, the fixed paragraph, as one symbol
DEFAULT_SYSTEM == <<"DEFAULT_SYSTEM">>

\* ChatService(max_context_chars=...): character budget under study
max_context_chars == 8

\* len(content) > 500 in _format_history
HistoryContentChars == 500

\* len(title) > 30 in _generate_session_title
TitleChars == 30

\* number of characters of one symbol
SymLen(sym) == IF sym \in OpenHeads THEN 10 ELSE IF sym \in CloseHeads THEN 11 ELSE 1

RECURSIVE PyLen(_)
\* len(text), in characters
PyLen(text) == IF text = <<>> THEN 0 ELSE SymLen(Head(text)) + PyLen(Tail(text))

RECURSIVE CharPrefix(_, _)
\* text[:n], n in characters (the texts that are cut hold one-character
\* symbols only, so the cut never falls inside a symbol)
CharPrefix(text, n) ==
    IF text = <<>> \/ SymLen(Head(text)) > n THEN <<>>
    ELSE <<Head(text)>> \o CharPrefix(Tail(text), n - SymLen(Head(text)))

\* faulty variant of _migrate_old_mode: the retired names are not mapped
MigrateNothing(mode) ==
    IF mode \in {"socratic", "assessment", "review", "explanatory", "debugging", "practice"}
    THEN mode ELSE "explanatory"

\* ChatService._migrate_old_mode
MigrateOldMode(mode) ==
    CASE mode = "socratic" -> "practice"
      [] mode = "assessment" -> "practice"
      [] mode = "review" -> "explanatory"
      [] mode = "explanatory" -> "explanatory"
      [] mode = "debugging" -> "debugging"
      [] mode = "practice" -> "practice"
      [] OTHER -> "explanatory"

\* chat, step 1: the session id of the turn
ResolveSessionId(session_id, uuid) ==
    IF session_id = None THEN uuid ELSE Get(session_id)

\* faulty variant of step 1: every turn counts as a new session
AlwaysNewSession(M, session_id) == TRUE

\* chat, step 1: is_new_session
IsNewSession(M, session_id) ==
    IF session_id = None THEN TRUE ELSE ~SessionExists(M, Get(session_id))

\* faulty variant of step 1.5: a rejected mode string is used as given
ResolveModeUnvalidated(M, sid, pedagogy_mode) ==
    IF pedagogy_mode = None THEN MigrateOldMode(GetPedagogyMode(M, sid))
    ELSE IF ValidateMode(pedagogy_mode) # None THEN Get(ValidateMode(pedagogy_mode))
    ELSE Get(pedagogy_mode)

\* chat, step 1.5: the resolved pedagogy_mode
ResolveMode(M, sid, pedagogy_mode) ==
    IF pedagogy_mode = None THEN MigrateOldMode(GetPedagogyMode(M, sid))
    ELSE IF ValidateMode(pedagogy_mode) # None THEN Get(ValidateMode(pedagogy_mode))
    ELSE "explanatory"

\* chat, step 1.5: the store after the mode was resolved
StoreResolvedMode(M, sid, pedagogy_mode, t) ==
    IF pedagogy_mode = None THEN M
    ELSE SetPedagogyMode(M, sid, ResolveMode(M, sid, pedagogy_mode), t)

\* chat, step 2: the history fed to the prompt
FetchHistory(M, sid, include_history, is_new_session) ==
    IF include_history /\ ~is_new_session
    THEN GetHistory(M, sid, Some(max_history_messages))
    ELSE <<>>

\* chat, step 2: the store after the history was fetched
StoreAfterFetch(M, sid, include_history, is_new_session, t) ==
    IF include_history /\ ~is_new_session THEN TouchHistory(M, sid, t) ELSE M

\* chat, step 3: [r["id"] for r in results]
ContextIds(results) == [i \in 1..Len(results) |-> results[i].id]

\* a context block whose chunks are cut one by one instead of the joined string
ContextStrPerChunk(results) ==
    JoinTexts([i \in 1..Len(results) |->
                  IF PyLen(results[i].text) > max_context_chars
                  THEN CharPrefix(results[i].text, max_context_chars)
                  ELSE results[i].text],
              ChunkSeparator)

\* chat, step 3: the joined chunk texts, cut to max_context_chars
ContextStr(results) ==
    LET context_str == JoinTexts([i \in 1..Len(results) |-> results[i].text], ChunkSeparator)
    IN IF PyLen(context_str) > max_context_chars
       THEN CharPrefix(context_str, max_context_chars)
       ELSE context_str

\* ChatService._format_history
FormatHistory(history) ==
    IF history = <<>> THEN <<>>
    ELSE LET line(msg) ==
                 <<IF msg.role = "user" THEN "Student" ELSE "Tutor", ":", " ">>
                 \o (IF PyLen(msg.content) > HistoryContentChars
                     THEN CharPrefix(msg.content, HistoryContentChars) \o <<".", ".", ".">>
                     ELSE msg.content)
         IN JoinTexts(<< <<"Previous conversation in this session:">> >>
                        \o [i \in 1..Len(history) |-> line(history[i])]
                        \o << <<>> >>,
                      <<"\n">>)

\* _build_messages, part 1: the system part
SystemPart(cache, files, pedagogy_mode) ==
    IF FromString(Some(pedagogy_mode)) # None
       /\ GetModePrompt(cache, files, Get(FromString(Some(pedagogy_mode)))) # None
    THEN DEFAULT_SYSTEM \o SystemSeparator
         \o Get(GetModePrompt(cache, files, Get(FromString(Some(pedagogy_mode)))))
    ELSE DEFAULT_SYSTEM

\* _build_messages: the prompt cache afterwards
CacheAfterBuild(cache, files, pedagogy_mode) ==
    IF FromString(Some(pedagogy_mode)) # None
    THEN CacheAfterGet(cache, files, Get(FromString(Some(pedagogy_mode))))
    ELSE cache

\* content_parts with the course-materials block whatever the context is
ContentPartsAlwaysContext(cache, files, query, context_str, history, pedagogy_mode) ==
    << SystemPart(cache, files, pedagogy_mode) >>
    \o (IF history # <<>> THEN << FormatHistory(history) >> ELSE <<>>)
    \o << <<"Relevant course materials:", "\n">> \o context_str >>
    \o << <<"Current question:", "\n">> \o query >>

\* ChatService._build_messages: content_parts
ContentParts(cache, files, query, context_str, history, pedagogy_mode) ==
    << SystemPart(cache, files, pedagogy_mode) >>
    \o (IF history # <<>> THEN << FormatHistory(history) >> ELSE <<>>)
    \o (IF context_str # <<>>
        THEN << <<"Relevant course materials:", "\n">> \o context_str >> ELSE <<>>)
    \o << <<"Current question:", "\n">> \o query >>

\* ChatService._build_messages: the message list sent to the model
BuildMessages(cache, files, query, context_str, history, pedagogy_mode) ==
    << [role |-> "user",
        content |-> JoinTexts(ContentParts(cache, files, query, context_str,
                                           history, pedagogy_mode),
                              <<"\n", "\n">>)] >>

\* dict.get(key), None when the key is absent
DictGet(d, key) == IF key \in DOMAIN d THEN Some(d[key]) ELSE None

\* chat, step 6: the raw answer text of a model result
RawAnswer(result) ==
    IF result.kind = "dict"
    THEN IF DictGet(result.value, "content") # None /\ result.value.content # <<>>
         THEN result.value.content
         ELSE IF DictGet(result.value, "answer") # None /\ result.value.answer # <<>>
         THEN result.value.answer
         ELSE <<>>
    ELSE result.value

\* chat, step 6: result.get(key) of a dict result, None otherwise
ResultField(result, key) ==
    IF result.kind = "dict" THEN DictGet(result.value, key) ELSE None

\* a step 7 that stores the query and not the answer
PersistQueryOnly(M, sid, query, answer, tokens_input, tokens_output, context_ids, tc, ta) ==
    AddMessage(M, sid, "user", query, tokens_input, None, tc, ta)

\* faulty variant of step 7: the answer is stored before the query
PersistAnswerFirst(M, sid, query, answer, tokens_input, tokens_output, context_ids, tc, ta) ==
    AddMessage(AddMessage(M, sid, "assistant", answer, tokens_output, Some(context_ids),
                          tc, tc),
               sid, "user", query, tokens_input, None, tc, ta)

\* chat, step 7: the two add_message calls
PersistExchange(M, sid, query, answer, tokens_input, tokens_output, context_ids, tc, ta) ==
    LET M1 == AddMessage(M, sid, "user", query, tokens_input, None, tc, tc)
    IN AddMessage(M1, sid, "assistant", answer, tokens_output, Some(context_ids), tc, ta)

RECURSIVE LStripQuotes(_)
LStripQuotes(text) ==
    IF text # <<>> /\ Head(text) \in {"\"", "'"} THEN LStripQuotes(Tail(text)) ELSE text

RECURSIVE RStripQuotes(_)
RStripQuotes(text) ==
    IF text # <<>> /\ text[Len(text)] \in {"\"", "'"}
    THEN RStripQuotes(SubSeq(text, 1, Len(text) - 1)) ELSE text

\* ChatService._generate_session_title; title_result is None when the
\* model call raises
GenerateSessionTitle(title_result) ==
    IF title_result = None THEN <<"New Chat">>
    ELSE LET result == Get(title_result)
             raw == IF result.kind = "str" THEN StripWs(result.value)
                    ELSE IF result.kind = "dict"
                    THEN (IF "content" \in DOMAIN result.value
                          THEN StripWs(result.value.content) ELSE <<"New Chat">>)
                    ELSE <<"New Chat">>
             clean == StripWs(RStripQuotes(LStripQuotes(StripReasoningTags(raw))))
             cut == IF PyLen(clean) > TitleChars
                    THEN CharPrefix(clean, TitleChars - 3) \o <<".", ".", ".">>
                    ELSE clean
         IN IF cut # <<>> THEN cut ELSE <<"New Chat">>

\* a step 7.5 whose failures reach the caller of chat
TitleFailurePropagates(is_new_session, title_result) ==
    IF is_new_session THEN "title_error" ELSE "ok"

\* chat, step 7.5: the state of the turn after it. _generate_session_title
\* returns "New Chat" on any exception of its own, memory.update_session_title
\* raises AttributeError (ConversationMemory has no such method), and the
\* except Exception around both logs a warning and goes on to step 8
StatusAfterTitle(is_new_session, title_result) == "ok"

\* what the title call of step 7.5 did
TitleCall(is_new_session, title_result) ==
    IF ~is_new_session THEN "none"
    ELSE IF title_result = None THEN "raised"
    ELSE Get(title_result).kind

(***************************************************************************)
(* One chat turn                                                           *)
(***************************************************************************)
\* the value of `turn` when the last step was not a chat turn
NoTurn ==
    [status |-> "none", title_call |-> "none", query |-> <<>>, arg_session_id |-> None, arg_mode |-> None,
     include_history |-> FALSE, session_id |-> "", is_new_session |-> FALSE,
     history |-> <<>>, history_length |-> 0, pedagogy_mode |-> "",
     results |-> <<>>, context_ids |-> <<>>, result |-> None,
     answer |-> <<>>, tokens_input |-> None,
     tokens_output |-> None, model_id |-> None, messages |-> <<>>,
     title |-> None, calls |-> <<>>]

(***************************************************************************)
(* Inputs of the operations                                                *)
(***************************************************************************)
Queries == { <<"q">> }

\* pedagogy_mode strings a caller passes to chat
ExplicitModes == {"debugging", "practice", "bogus"}

\* mode values written directly with set_pedagogy_mode
StoredModes == {"socratic"}

\* what semantic_search returns
SearchResults ==
    { << [id |-> "c1", text |-> <<"a", "b">>], [id |-> "c2", text |-> <<"c", "d">>] >> }

\* what agent_client.chat returns for the answer
AgentResults ==
    { [kind |-> "str", value |-> <<"x">>],
      [kind |-> "dict",
       value |-> [content |-> <<"<reasoning", ">", "r", "</reasoning", ">", "y", "\n">>,
                  tokens_input |-> 10, tokens_output |-> 20, model_id |-> "m1"]] }

\* what agent_client.chat returns for the title
TitleResults ==
    { [kind |-> "str", value |-> <<"\"", "T", "\"">>],
      [kind |-> "other", value |-> <<>>] }

\* (role, content, tokens, context_ids) of direct add_message calls
AddInputs ==
    { [role |-> "user", content |-> <<"q">>, tokens |-> None, context_ids |-> None],
      [role |-> "assistant", content |-> <<"x">>, tokens |-> Some(20),
       context_ids |-> Some(<<"c1">>)] }

Opt(S) == {None} \cup {Some(x) : x \in S}

\* the prompt resources of a complete installation
AllPromptFiles ==
    [f \in {GetPromptFilename(m) : m \in PedagogyModeSet} |-> <<"text of " \o f>>]

EmptyMap == [x \in {} |-> x]

\* the clock readings an operation starting now can take
Readings == now..Min(now + 1, MaxTime)

(***************************************************************************)
(* State and operations                                                    *)
(***************************************************************************)
\* the value of `ret` when the last step was not a memory operation
NoRet == [op |-> "none", session_id |-> "", arg |-> None, flag |-> FALSE, count |-> 0,
          list |-> <<>>, value |-> None, removed |-> {}]

\* the record of a memory operation: its name, its session id, its integer
\* argument if it has one (max_messages, max_age_hours), what it returned
\* (flag, count or list) and the session ids it removed
Ret(op, sid, arg, flag, count, list, M) ==
    [op |-> op, session_id |-> sid, arg |-> arg, flag |-> flag, count |-> count,
     list |-> list, value |-> None,
     removed |-> (DOMAIN memory.sessions) \ (DOMAIN M.sessions)]

\* the requests served at the same time by the threadpool of the sync endpoint
ThreadIds == {"t1", "t2"}

\* a request thread outside ConversationMemory
NoThread ==
    [pc |-> "idle", session_id |-> "", role |-> "", content |-> <<>>, tokens |-> None,
     context_ids |-> None, oldest_session |-> None, evicted |-> 0, error |-> None]

InitStore ==
    /\ memory = [sessions |-> EmptyMap, order |-> <<>>]
    /\ now = 0
    /\ uuids = {}
    /\ ret = NoRet
    /\ turn = NoTurn
    /\ threads = [t \in ThreadIds |-> NoThread]

\* a ChatService over an empty store, wired as in InternalEndpoints: the prompt
\* service is the preloaded singleton of a complete installation
InitChat ==
    /\ InitStore
    /\ prompt_files = AllPromptFiles
    /\ prompt_cache = PreloadAllPrompts(prompt_files)

\* ChatService(..., max_history_messages=HistoryWindow)
Init ==
    /\ InitChat
    /\ max_history_messages = HistoryWindow

\* ChatService(..., max_history_messages=0)
InitWindow0 ==
    /\ InitChat
    /\ max_history_messages = 0

\* a ConversationMemory on its own
InitMemory ==
    /\ InitStore
    /\ prompt_files = AllPromptFiles
    /\ prompt_cache = EmptyMap
    /\ max_history_messages = HistoryWindow

MemoryStep(M, t, r) ==
    /\ turn.status = "none"
    /\ memory' = M
    /\ now' = t
    /\ ret' = r
    /\ turn' = NoTurn
    /\ UNCHANGED <<prompt_cache, prompt_files, max_history_messages, uuids, threads>>

add_message ==
    /\ ret.op = "none"
    /\ \E sid \in SessionIds, in \in AddInputs, tc \in Readings :
      \E ta \in tc..Min(now + 1, MaxTime) :
        /\ sid \in DOMAIN memory.sessions => Len(memory.sessions[sid].messages) < MaxMsgs
        /\ LET M == AddMessage(memory, sid, in.role, in.content, in.tokens,
                               in.context_ids, tc, ta)
           IN MemoryStep(M, ta, Ret("add_message", sid, None, FALSE, 0, <<>>, M))

get_history ==
    /\ ret.op = "none"
    /\ \E sid \in SessionIds, max_messages \in Opt(0..MaxMsgs), t \in Readings :
        MemoryStep(TouchHistory(memory, sid, t), t,
                   Ret("get_history", sid, max_messages, FALSE, 0,
                       GetHistory(memory, sid, max_messages), memory))

clear_session ==
    \E sid \in SessionIds :
        LET M == ClearSession(memory, sid)
        IN MemoryStep(M, now, Ret("clear_session", sid, None, ClearSessionResult(memory, sid),
                                  0, <<>>, M))

set_pedagogy_mode ==
    /\ ret.op = "none"
    /\ \E sid \in SessionIds, mode \in StoredModes, t \in Readings :
        LET M == SetPedagogyMode(memory, sid, mode, t)
        IN MemoryStep(M, t, [Ret("set_pedagogy_mode", sid, None, FALSE, 0, <<>>, M)
                               EXCEPT !.value = Some(mode)])

set_state ==
    /\ ret.op = "none"
    /\ \E sid \in SessionIds, t \in Readings :
        LET M == IF sid \notin DOMAIN memory.sessions
                 THEN CreateSession(memory, sid, t) ELSE memory
        IN MemoryStep(M, t, Ret("set_state", sid, None, FALSE, 0, <<>>, M))

prune_old_sessions ==
    /\ ret.op = "none"
    /\ \E max_age_hours \in 0..MaxTime, t \in Readings :
        LET M == PruneOldSessions(memory, max_age_hours, t)
        IN MemoryStep(M, t, Ret("prune_old_sessions", "", Some(max_age_hours), FALSE,
                                Cardinality(SessionsToRemove(memory, max_age_hours, t)),
                                <<>>, M))

truncate_session_history ==
    /\ ret.op = "none"
    /\ \E sid \in SessionIds, max_messages \in 0..MaxMsgs :
        LET M == TruncateSessionHistory(memory, sid, max_messages)
        IN MemoryStep(M, now, Ret("truncate_session_history", sid, Some(max_messages), FALSE,
                                  TruncateCount(memory, sid, max_messages), <<>>, M))

\* the session_id argument of a chat call with the value uuid4() returns when
\* it is None: a client passes an id of its own or one a turn returned to it,
\* and uuid4() returns a value it never returned before
SessionArgs ==
    {[session_id |-> Some(s), uuid |-> ""] : s \in ClientIds \cup uuids}
      \cup {[session_id |-> None, uuid |-> u] : u \in UuidIds \ uuids}

\* chat, step 3: what the turn derives from the list semantic_search returned
SearchOutcome(results) ==
    [results |-> results, context_ids |-> ContextIds(results),
     context_str |-> ContextStr(results)]

SearchOutcomes == {SearchOutcome(results) : results \in SearchResults}

\* chat, step 6: what the turn derives from the value agent_client.chat returned
AgentOutcome(result) ==
    [result |-> result,
     answer |-> StripReasoningTags(RawAnswer(result)),
     tokens_input |-> ResultField(result, "tokens_input"),
     tokens_output |-> ResultField(result, "tokens_output"),
     model_id |-> ResultField(result, "model_id")]

AgentOutcomes == {AgentOutcome(result) : result \in AgentResults}

\* chat, step 7.5: the title derived from what the title call did
TitleOutcome(title_result) ==
    [title_result |-> title_result, title |-> GenerateSessionTitle(title_result)]

TitleOutcomes == {TitleOutcome(title_result) : title_result \in Opt(TitleResults)}

\* a turn that retrieves context only when it also fetches history
CallsToSearchWithHistoryOnly(session_id, pedagogy_mode, include_history, is_new_session) ==
    (IF session_id = None THEN <<>> ELSE <<"memory.session_exists">>)
    \o (IF pedagogy_mode = None THEN <<"memory.get_pedagogy_mode">>
        ELSE <<"memory.set_pedagogy_mode">>)
    \o (IF include_history /\ ~is_new_session THEN <<"memory.get_history">> ELSE <<>>)
    \o (IF include_history THEN <<"vector_service.semantic_search">> ELSE <<>>)

\* the memory calls of steps 1 to 2 and the search call, in call order
CallsToSearch(session_id, pedagogy_mode, include_history, is_new_session) ==
    (IF session_id = None THEN <<>> ELSE <<"memory.session_exists">>)
    \o (IF pedagogy_mode = None THEN <<"memory.get_pedagogy_mode">>
        ELSE <<"memory.set_pedagogy_mode">>)
    \o (IF include_history /\ ~is_new_session THEN <<"memory.get_history">> ELSE <<>>)
    \o <<"vector_service.semantic_search">>

\* the end of a chat call: the store, the prompt cache, the outcome and the
\* clock reading it leaves
ChatStep(M, cache, t, session_id, uuid, outcome) ==
    /\ memory' = M
    /\ prompt_cache' = cache
    /\ turn' = outcome
    /\ uuids' = IF session_id = None THEN uuids \cup {uuid} ELSE uuids
    /\ now' = t
    /\ ret' = NoRet
    /\ UNCHANGED <<prompt_files, max_history_messages, threads>>

\* ChatService.chat. searches and agents hold what the collaborators may do in
\* this call (None: the call raises); tc and ta are clock readings, tc <= ta, ta
\* the one of the last add_message. Each \E over a one-element set binds a local
\* variable of the method. `turn` becomes the outcome: status "ok" with the
\* returned dict, or the ChatServiceError raised.
Chat(searches, agents) ==
    /\ turn.status = "none"
    /\ CountMessages(memory, 1) < 2 * MaxTurns
    /\ \E query \in Queries, id \in SessionArgs,
          include_history \in BOOLEAN, pedagogy_mode \in Opt(ExplicitModes),
          tc \in Readings :
       \E session_id \in {id.session_id}, uuid \in {id.uuid} :
       \* step 1
       \E sid \in {ResolveSessionId(session_id, uuid)},
          is_new_session \in {IsNewSession(memory, session_id)} :
       \* step 1.5
       \E mode \in {ResolveMode(memory, sid, pedagogy_mode)},
          M1 \in {StoreResolvedMode(memory, sid, pedagogy_mode, tc)} :
       \* step 2
       \E history \in {FetchHistory(M1, sid, include_history, is_new_session)},
          M2 \in {StoreAfterFetch(M1, sid, include_history, is_new_session, tc)} :
       \E calls2 \in {CallsToSearch(session_id, pedagogy_mode, include_history,
                                    is_new_session)},
          base \in {[NoTurn EXCEPT !.query = query, !.arg_session_id = session_id,
                                   !.arg_mode = pedagogy_mode,
                                   !.include_history = include_history,
                                   !.session_id = sid, !.is_new_session = is_new_session,
                                   !.history = history, !.history_length = Len(history),
                                   !.pedagogy_mode = mode]} :
       \E search \in searches :
         IF search = None
         \* step 3 raises
         THEN ChatStep(M2, prompt_cache, tc, session_id, uuid,
                       [base EXCEPT !.status = "vector_error", !.calls = calls2])
         ELSE
         \* steps 3 and 4
         \E context_ids \in {Get(search).context_ids},
            context_str \in {Get(search).context_str} :
         \E messages \in {BuildMessages(prompt_cache, prompt_files, query, context_str,
                                        history, mode)},
            cache1 \in {CacheAfterBuild(prompt_cache, prompt_files, mode)},
            calls3 \in {calls2 \o <<"agent_client.chat">>} :
         \E built \in {[base EXCEPT !.results = Get(search).results,
                                      !.context_ids = context_ids,
                                      !.messages = messages]} :
         \E agent \in agents :
           IF agent = None
           \* step 5 raises
           THEN ChatStep(M2, cache1, tc, session_id, uuid,
                         [built EXCEPT !.status = "agent_error", !.calls = calls3])
           ELSE
           \* steps 6 to 8
           \E answer \in {Get(agent).answer},
              tokens_input \in {Get(agent).tokens_input},
              tokens_output \in {Get(agent).tokens_output},
              ta \in tc..Min(now + 1, MaxTime) :
           \E M3 \in {PersistExchange(M2, sid, query, answer, tokens_input,
                                      tokens_output, context_ids, tc, ta)},
              \* step 7.5: the title call is made for new sessions only;
              \* memory.update_session_title does not exist on ConversationMemory,
              \* the AttributeError is caught and nothing is stored
              titled \in (IF is_new_session THEN {Some(o) : o \in TitleOutcomes}
                          ELSE {None}),
              calls4 \in {calls3 \o <<"memory.add_message", "memory.add_message">>
                          \o (IF is_new_session THEN <<"agent_client.chat">> ELSE <<>>)} :
             ChatStep(M3, cache1, ta, session_id, uuid,
                      [built EXCEPT !.status = StatusAfterTitle(is_new_session, titled),
                                    !.result = Some(Get(agent).result),
                                    !.answer = answer,
                                    !.tokens_input = tokens_input,
                                    !.tokens_output = tokens_output,
                                    !.model_id = Get(agent).model_id,
                                    !.title = IF titled = None THEN None
                                              ELSE Some(Get(titled).title),
                                    !.title_call =
                                        TitleCall(is_new_session,
                                                  IF titled = None THEN None
                                                  ELSE Get(titled).title_result),
                                    !.calls = calls4])

\* semantic_search raises
chat_vector_error == Chat({None}, {None})

\* semantic_search returns, the answer call raises
chat_agent_error == Chat({Some(search) : search \in SearchOutcomes}, {None})

\* both calls return; the title call returns or raises
chat_ok ==
    Chat({Some(search) : search \in SearchOutcomes},
         {Some(agent) : agent \in AgentOutcomes})

\* chat_endpoint hands the outcome of the call to the client (the ChatResponse
\* or the error body); the next request is served after that
respond ==
    /\ turn.status # "none"
    /\ turn' = NoTurn
    /\ UNCHANGED <<memory, now, prompt_cache, prompt_files, max_history_messages,
                   uuids, ret, threads>>

\* the chat service with the endpoint that deletes a session
Next ==
    \/ chat_ok
    \/ chat_vector_error
    \/ chat_agent_error
    \/ respond
    \/ clear_session

Spec == Init /\ [][Next]_vars

\* the same service constructed with max_history_messages=0
SpecWindow0 == InitWindow0 /\ [][Next]_vars

\* mode values a session can hold: the enum values chat stores, "practice" and
\* a value no table knows (set_pedagogy_mode stores what it is given)
AnyStoredModes ==
    {"socratic", "assessment", "review", "explanatory", "debugging", "practice", "legacy"}

\* the session whose mode is written directly
DirectModeIds == {"s1"}

\* memory.set_pedagogy_mode called with any of these values
set_any_mode ==
    \E sid \in DirectModeIds, mode \in AnyStoredModes, t \in Readings :
        LET M == SetPedagogyMode(memory, sid, mode, t)
        IN MemoryStep(M, t, [Ret("set_pedagogy_mode", sid, None, FALSE, 0, <<>>, M)
                               EXCEPT !.value = Some(mode)])

\* a chat call without pedagogy_mode that returns
chat_stored_mode == chat_ok /\ turn'.arg_mode = None

\* turns that resolve the stored mode of sessions holding any mode value
NextStoredModes ==
    \/ set_any_mode
    \/ chat_stored_mode
    \/ respond

SpecStoredModes == Init /\ [][NextStoredModes]_vars

\* the caller of a memory operation takes what it returned; until then the one
\* call made is clear_session, which the endpoints expose as it is
returned ==
    /\ ret.op # "none"
    /\ ret' = NoRet
    /\ UNCHANGED <<memory, now, prompt_cache, prompt_files, max_history_messages,
                   uuids, turn, threads>>

\* the ConversationMemory API called directly
NextMemory ==
    \/ returned
    \/ add_message
    \/ get_history
    \/ clear_session
    \/ set_pedagogy_mode
    \/ set_state
    \/ prune_old_sessions
    \/ truncate_session_history

SpecMemory == InitMemory /\ [][NextMemory]_vars

(***************************************************************************)
(* The read operations of ConversationMemory over small stores             *)
(***************************************************************************)
get_formatted_history ==
    /\ ret.op = "none"
    /\ \E sid \in SessionIds, max_messages \in Opt(0..MaxMsgs), t \in Readings :
        MemoryStep(TouchHistory(memory, sid, t), t,
                   Ret("get_formatted_history", sid, max_messages, FALSE, 0,
                       GetFormattedHistory(memory, sid, max_messages), memory))

session_exists ==
    /\ ret.op = "none"
    /\ \E sid \in SessionIds :
        MemoryStep(memory, now,
                   Ret("session_exists", sid, None, SessionExists(memory, sid), 0, <<>>,
                       memory))

get_session_info ==
    /\ ret.op = "none"
    /\ \E sid \in SessionIds :
        MemoryStep(memory, now,
                   [Ret("get_session_info", sid, None, FALSE, 0, <<>>, memory)
                      EXCEPT !.value = GetSessionInfo(memory, sid)])

list_sessions ==
    /\ ret.op = "none"
    /\ MemoryStep(memory, now,
                  Ret("list_sessions", "", None, FALSE, 0, ListSessions(memory), memory))

get_pedagogy_mode ==
    /\ ret.op = "none"
    /\ \E sid \in SessionIds :
        MemoryStep(memory, now,
                   [Ret("get_pedagogy_mode", sid, None, FALSE, 0, <<>>, memory)
                      EXCEPT !.value = Some(GetPedagogyMode(memory, sid))])

\* add_message calls that fill the small stores the reads are made on
small_add_message ==
    /\ CountMessages(memory, 1) < MaxSerial
    /\ add_message

NextReads ==
    \/ returned
    \/ small_add_message
    \/ set_pedagogy_mode
    \/ get_history
    \/ get_formatted_history
    \/ session_exists
    \/ get_session_info
    \/ list_sessions
    \/ get_pedagogy_mode

SpecReads == InitMemory /\ [][NextReads]_vars

(***************************************************************************)
(* set_pedagogy_mode with any mode value, between add_message calls        *)
(***************************************************************************)
set_raw_mode ==
    /\ ret.op = "none"
    /\ \E sid \in SessionIds, mode \in AnyStoredModes, t \in Readings :
        LET M == SetPedagogyMode(memory, sid, mode, t)
        IN MemoryStep(M, t, [Ret("set_pedagogy_mode", sid, None, FALSE, 0, <<>>, M)
                               EXCEPT !.value = Some(mode)])

NextModes == returned \/ small_add_message \/ set_raw_mode

SpecModes == InitMemory /\ [][NextModes]_vars

(***************************************************************************)
(* PromptService on its own, over a prompts directory whose files come and *)
(* go                                                                      *)
(***************************************************************************)
\* the mode arguments of get_mode_prompt: enum members (their values) and
\* strings in other letter cases or outside the enum
PromptModeArgs == {"socratic", "debugging", "Debugging", "bogus"}

\* the resources that are written and removed
EditedFiles == {GetPromptFilename("socratic"), GetPromptFilename("debugging")}

\* the texts written to them
FileTexts == {<<"v1">>, <<"v2">>}

\* one PromptService call or one change of the prompts directory
PromptStep(cache, files, r) ==
    /\ prompt_cache' = cache
    /\ prompt_files' = files
    /\ ret' = r
    /\ UNCHANGED <<memory, now, max_history_messages, uuids, turn, threads>>

\* PromptService.get_mode_prompt: ret.value is the returned text, ret.list the
\* exception raised, ret.flag whether the resource was opened
get_mode_prompt ==
    \E mode_arg \in PromptModeArgs :
        LET mode == FromString(Some(mode_arg))
            r == [NoRet EXCEPT !.op = "get_mode_prompt", !.arg = Some(mode_arg)]
        IN IF mode = None
           THEN PromptStep(prompt_cache, prompt_files, [r EXCEPT !.list = <<"ValueError">>])
           ELSE LET text == GetModePrompt(prompt_cache, prompt_files, Get(mode))
                IN PromptStep(CacheAfterGet(prompt_cache, prompt_files, Get(mode)),
                              prompt_files,
                              [r EXCEPT !.value = text,
                                        !.list = IF text = None
                                                 THEN <<"FileNotFoundError">> ELSE <<>>,
                                        !.flag = /\ Get(mode) \notin DOMAIN prompt_cache
                                                 /\ text # None])

\* PromptService.clear_cache
clear_cache ==
    PromptStep(EmptyMap, prompt_files, [NoRet EXCEPT !.op = "clear_cache"])

\* a prompt file is written (created or replaced) in prompts_dir
write_prompt_file ==
    \E file \in EditedFiles, text \in FileTexts :
        PromptStep(prompt_cache, (file :> text) @@ prompt_files,
                   [NoRet EXCEPT !.op = "write_prompt_file"])

\* a prompt file is removed from prompts_dir
remove_prompt_file ==
    \E file \in EditedFiles \cap DOMAIN prompt_files :
        PromptStep(prompt_cache, [f \in (DOMAIN prompt_files) \ {file} |-> prompt_files[f]],
                   [NoRet EXCEPT !.op = "remove_prompt_file"])

NextPrompts == get_mode_prompt \/ clear_cache \/ write_prompt_file \/ remove_prompt_file

\* PromptService(prompts_dir) over a complete prompts directory
InitPrompts ==
    /\ InitStore
    /\ prompt_files = AllPromptFiles
    /\ prompt_cache = EmptyMap
    /\ max_history_messages = HistoryWindow

SpecPrompts == InitPrompts /\ [][NextPrompts]_vars

(***************************************************************************)
(* ChatService._build_messages on its own, over a prompt service whose     *)
(* files come and go                                                       *)
(***************************************************************************)
\* (query, context_str, history, pedagogy_mode) of a _build_messages call:
\* empty and non-empty context, no history, one message and one exchange, a
\* mode with a prompt file, and the migrated name that is no enum member
BuildInputs ==
    [query : Queries,
     context_str : {<<>>, <<"a">>},
     history : {<<>>,
                << [role |-> "user", content |-> <<"q">>] >>,
                << [role |-> "user", content |-> <<"q">>],
                   [role |-> "assistant", content |-> <<"x">>] >>},
     pedagogy_mode : {"socratic", "debugging", "practice"}]

\* messages = self._build_messages(query, context_str, history, pedagogy_mode)
build_messages ==
    \E in \in BuildInputs :
        PromptStep(CacheAfterBuild(prompt_cache, prompt_files, in.pedagogy_mode),
                   prompt_files,
                   [NoRet EXCEPT !.op = "_build_messages", !.arg = Some(in),
                                 !.value = Some(BuildMessages(prompt_cache, prompt_files,
                                                              in.query, in.context_str,
                                                              in.history,
                                                              in.pedagogy_mode))])

NextBuild == build_messages \/ clear_cache \/ write_prompt_file \/ remove_prompt_file

SpecBuild == InitPrompts /\ [][NextBuild]_vars

(***************************************************************************)
(* Two requests inside ConversationMemory.add_message at the same time.    *)
(* chat_endpoint is a plain def, so each request runs on a threadpool      *)
(* thread over the one ConversationMemory; the class takes no lock.  A     *)
(* thread can be suspended between two statements (each statement below is *)
(* followed or preceded by a call: len, min, datetime.now, logger), and    *)
(* one statement is taken as one step.                                     *)
(***************************************************************************)
AllIdle == \A t \in ThreadIds : threads[t].pc = "idle"

\* one statement of thread t: the store, the clock and the thread afterwards
ThreadStep(t, M, reading, thread) ==
    /\ memory' = M
    /\ now' = reading
    /\ threads' = [threads EXCEPT ![t] = thread]
    /\ UNCHANGED <<prompt_cache, prompt_files, max_history_messages, uuids, ret, turn>>

\* an exception leaving add_message
Raised(thread, error) ==
    [thread EXCEPT !.pc = "failed", !.error = Some([type |-> error, at |-> thread.pc])]

\* calls made one after the other before the two requests arrive
serial_add_message ==
    /\ AllIdle
    /\ CountMessages(memory, 1) < MaxSerial
    /\ add_message

\* add_message entered: if session_id not in self.sessions
add_message_enter(t) ==
    /\ threads[t].pc = "idle"
    /\ ret.op = "none"
    /\ \E sid \in SessionIds, in \in AddInputs :
         ThreadStep(t, memory, now,
                    [NoThread EXCEPT !.session_id = sid, !.role = in.role,
                                     !.content = in.content, !.tokens = in.tokens,
                                     !.context_ids = in.context_ids,
                                     !.pc = IF sid \notin DOMAIN memory.sessions
                                            THEN "capacity" ELSE "tokens"])

\* _create_session: if len(self.sessions) >= self.max_sessions
create_session_capacity(t) ==
    /\ threads[t].pc = "capacity"
    /\ ThreadStep(t, memory, now,
                  [threads[t] EXCEPT !.pc = IF Cardinality(DOMAIN memory.sessions)
                                                >= max_sessions
                                             THEN "oldest" ELSE "insert"])

\* _create_session: oldest_session = min(self.sessions.items(), ...)[0]
create_session_oldest(t) ==
    /\ threads[t].pc = "oldest"
    /\ ThreadStep(t, memory, now,
                  IF DOMAIN memory.sessions = {}
                  THEN Raised(threads[t], "ValueError")
                  ELSE [threads[t] EXCEPT !.oldest_session = Some(OldestSession(memory)),
                                          !.pc = "delete"])

\* _create_session: del self.sessions[oldest_session]
create_session_delete(t) ==
    /\ threads[t].pc = "delete"
    /\ LET oldest_session == Get(threads[t].oldest_session)
       IN IF oldest_session \in DOMAIN memory.sessions
          THEN ThreadStep(t, DelKey(memory, oldest_session), now,
                          [threads[t] EXCEPT !.evicted = @ + 1, !.pc = "insert"])
          ELSE ThreadStep(t, memory, now, Raised(threads[t], "KeyError"))

\* _create_session: self.sessions[session_id] = {...}, a fresh entry under the
\* key whether or not another thread has put one there meanwhile
create_session_insert(t) ==
    /\ threads[t].pc = "insert"
    /\ \E reading \in Readings :
         ThreadStep(t, InsertSession(memory, threads[t].session_id, reading),
                    reading, [threads[t] EXCEPT !.pc = "tokens"])

\* add_message: self.sessions[session_id]["total_tokens"] += tokens
add_message_tokens(t) ==
    /\ threads[t].pc = "tokens"
    /\ LET sid == threads[t].session_id
           tokens == threads[t].tokens
       IN IF tokens = None
          THEN ThreadStep(t, memory, now, [threads[t] EXCEPT !.pc = "append"])
          ELSE IF sid \notin DOMAIN memory.sessions
          THEN ThreadStep(t, memory, now, Raised(threads[t], "KeyError"))
          ELSE ThreadStep(t, [memory EXCEPT !.sessions[sid].total_tokens = @ + Get(tokens)],
                          now, [threads[t] EXCEPT !.pc = "append"])

\* add_message: self.sessions[session_id]["messages"].append(message)
add_message_append(t) ==
    /\ threads[t].pc = "append"
    /\ LET sid == threads[t].session_id
           message == MakeMessage(threads[t].role, threads[t].content, threads[t].tokens,
                                  threads[t].context_ids)
       IN IF sid \notin DOMAIN memory.sessions
          THEN ThreadStep(t, memory, now, Raised(threads[t], "KeyError"))
          ELSE ThreadStep(t, [memory EXCEPT !.sessions[sid].messages = Append(@, message)],
                          now, [threads[t] EXCEPT !.pc = "touch"])

\* add_message: self.sessions[session_id]["last_accessed"] = datetime.now(...)
add_message_touch(t) ==
    /\ threads[t].pc = "touch"
    /\ \E reading \in Readings :
         LET sid == threads[t].session_id
         IN IF sid \notin DOMAIN memory.sessions
            THEN ThreadStep(t, memory, reading, Raised(threads[t], "KeyError"))
            ELSE ThreadStep(t, [memory EXCEPT !.sessions[sid].last_accessed = reading],
                            reading, [threads[t] EXCEPT !.pc = "done"])

NextConcurrent ==
    \/ serial_add_message
    \/ returned
    \/ \E t \in ThreadIds : add_message_enter(t)
    \/ \E t \in ThreadIds : create_session_capacity(t)
    \/ \E t \in ThreadIds : create_session_oldest(t)
    \/ \E t \in ThreadIds : create_session_delete(t)
    \/ \E t \in ThreadIds : create_session_insert(t)
    \/ \E t \in ThreadIds : add_message_tokens(t)
    \/ \E t \in ThreadIds : add_message_append(t)
    \/ \E t \in ThreadIds : add_message_touch(t)

SpecConcurrent == InitMemory /\ [][NextConcurrent]_vars

(***************************************************************************)
(* ChatService._strip_reasoning_tags on its own, over every text the model *)
(* can return within the bounds                                            *)
(***************************************************************************)
\* the symbols of a model output: tag heads in both letter cases, the closing
\* bracket, white space and a letter
TextSymbols ==
    {"<reasoning", "<REASONING", "</reasoning", "</REASONING", ">", "\n", " ", "s"}

\* all texts of at most n symbols
TextsUpTo(n) == UNION {[1..k -> TextSymbols] : k \in 0..n}

\* a service holding a value, before the function under study is applied
InitHolding(op, value) ==
    /\ memory = [sessions |-> EmptyMap, order |-> <<>>]
    /\ now = 0
    /\ uuids = {}
    /\ ret = [NoRet EXCEPT !.op = op, !.arg = Some(value)]
    /\ turn = NoTurn
    /\ threads = [t \in ThreadIds |-> NoThread]
    /\ prompt_files = AllPromptFiles
    /\ prompt_cache = PreloadAllPrompts(prompt_files)
    /\ max_history_messages = HistoryWindow

\* the answer text of a model call: result.get('content', '') or str(result)
InitModelOutput == \E text \in TextsUpTo(MaxTextLen) : InitHolding("model_output", text)

\* answer = self._strip_reasoning_tags(answer)
strip_reasoning_tags ==
    /\ ret.op = "model_output"
    /\ ret' = [ret EXCEPT !.op = "_strip_reasoning_tags",
                          !.list = StripReasoningTags(Get(ret.arg))]
    /\ UNCHANGED <<memory, now, prompt_cache, prompt_files, max_history_messages,
                   uuids, turn, threads>>

NextStripReasoning == strip_reasoning_tags

SpecStripReasoning == InitModelOutput /\ [][NextStripReasoning]_vars

(***************************************************************************)
(* Step 3 of chat on its own, over the result lists semantic_search can    *)
(* return within the bounds                                                *)
(***************************************************************************)
\* chunk texts of at most MaxChunkLen characters
ChunkTexts == UNION {[1..k -> {"a", "b"}] : k \in 0..MaxChunkLen}

\* result lists of at most MaxChunks chunks
ChunkLists ==
    UNION {[1..k -> {[id |-> "c", text |-> text] : text \in ChunkTexts}] : k \in 0..MaxChunks}

\* results = self.vector_service.semantic_search(query=query, top_k=top_k)
InitSearchResults == \E results \in ChunkLists : InitHolding("semantic_search", results)

\* context_str = "\n---\n".join(context_chunks), cut when longer than max_context_chars
build_context ==
    /\ ret.op = "semantic_search"
    /\ ret' = [ret EXCEPT !.op = "context_str", !.list = ContextStr(Get(ret.arg))]
    /\ UNCHANGED <<memory, now, prompt_cache, prompt_files, max_history_messages,
                   uuids, turn, threads>>

NextContext == build_context

SpecContext == InitSearchResults /\ [][NextContext]_vars

(***************************************************************************)
(* Properties of ConversationMemory (checked under SpecMemory)             *)
(***************************************************************************)
\* the operations that create a session for an unknown id
CreatingOps == {"add_message", "set_pedagogy_mode", "set_state"}

\* the stored messages of a session, <<>> for an unknown id
MessagesOf(M, sid) == IF sid \in DOMAIN M.sessions THEN M.sessions[sid].messages ELSE <<>>

\* C1: after any sequence of add_message, set_pedagogy_mode, set_state,
\* get_history, clear_session, prune_old_sessions and truncate_session_history
\* calls on any session ids, the store holds at most max_sessions sessions.
C1_SessionCountBounded == Cardinality(DOMAIN memory.sessions) <= max_sessions

\* a session was created while the store was full, and the store is full again
C1_Witness ==
    /\ ret.op \in CreatingOps
    /\ ret.removed # {}
    /\ ret.session_id \in DOMAIN memory.sessions
    /\ Cardinality(DOMAIN memory.sessions) = max_sessions

\* C2: a creation by add_message or set_pedagogy_mode on an unknown id in a full
\* store removes exactly one existing session, one whose last_accessed is
\* minimal among the existing ones, and leaves every other existing session
\* unchanged; in a store that is not full it removes nothing. last_accessed is
\* the clock reading of the creation, of the last add_message and of the last
\* get_history on the session.
C2_EvictsOneLeastRecentlyAccessed ==
    [][/\ (/\ ret'.op \in {"add_message", "set_pedagogy_mode"}
           /\ ret'.session_id \notin DOMAIN memory.sessions)
          => /\ ret'.session_id \in DOMAIN memory'.sessions
             /\ IF Cardinality(DOMAIN memory.sessions) >= max_sessions
                THEN \E victim \in DOMAIN memory.sessions :
                       /\ DOMAIN memory'.sessions
                            = ((DOMAIN memory.sessions) \ {victim}) \cup {ret'.session_id}
                       /\ \A o \in DOMAIN memory.sessions :
                            memory.sessions[victim].last_accessed
                              <= memory.sessions[o].last_accessed
                       /\ \A o \in (DOMAIN memory.sessions) \ {victim} :
                            memory'.sessions[o] = memory.sessions[o]
                ELSE /\ DOMAIN memory'.sessions
                          = (DOMAIN memory.sessions) \cup {ret'.session_id}
                     /\ \A o \in DOMAIN memory.sessions :
                          memory'.sessions[o] = memory.sessions[o]
       /\ (ret'.op \in {"add_message", "set_pedagogy_mode", "get_history"}
           /\ ret'.session_id \in DOMAIN memory'.sessions)
          => memory'.sessions[ret'.session_id].last_accessed
               = IF ret'.op = "set_pedagogy_mode"
                    /\ ret'.session_id \in DOMAIN memory.sessions
                 THEN memory.sessions[ret'.session_id].last_accessed
                 ELSE now'
      ]_vars

\* add_message or set_pedagogy_mode evicted one session and another one, older
\* by creation than the new one, survived with a later last_accessed
C2_Witness ==
    /\ ret.op \in {"add_message", "set_pedagogy_mode"}
    /\ Cardinality(ret.removed) = 1
    /\ Len(memory.order) = max_sessions
    /\ memory.order[Len(memory.order)] = ret.session_id
    /\ memory.sessions[memory.order[1]].created_at
         < memory.sessions[memory.order[1]].last_accessed

\* C3: for every stored session, total_tokens is the sum of the tokens of the
\* stored messages (0 for a message without tokens) and get_session_info
\* reports the length of the stored message sequence as message_count.
C3_TokensAndCountConsistent ==
    \A sid \in DOMAIN memory.sessions :
        /\ memory.sessions[sid].total_tokens = SumTokens(memory.sessions[sid].messages)
        /\ Get(GetSessionInfo(memory, sid)).message_count
             = Len(memory.sessions[sid].messages)

\* truncate_session_history removed a message and the session still holds a
\* message with a token count
C3_Witness ==
    /\ ret.op = "truncate_session_history"
    /\ ret.count > 0
    /\ ret.session_id \in DOMAIN memory.sessions
    /\ memory.sessions[ret.session_id].total_tokens > 0

(***************************************************************************)
(* Properties of ChatService.chat (checked under Spec and SpecWindow0)     *)
(***************************************************************************)
\* the statuses of a turn that raised ChatServiceError
FailedStatuses == {"vector_error", "agent_error"}

\* the stored fields of a session that a turn can persist
Persisted(M, sid) ==
    [messages |-> M.sessions[sid].messages,
     total_tokens |-> M.sessions[sid].total_tokens,
     pedagogy_mode |-> M.sessions[sid].pedagogy_mode]

\* C4: when agent_client.chat raises during the answer call, the turn raises
\* ChatServiceError and the stored message sequence of every session id is the
\* same as before the call (an id without a session holding no messages).
C4_AgentFailureKeepsMessages ==
    [][turn'.status = "agent_error"
       => \A sid \in SessionIds : MessagesOf(memory', sid) = MessagesOf(memory, sid)
      ]_vars

\* C5: a turn that fails (semantic_search or agent_client.chat raises) persists
\* nothing: the set of session ids and every session's messages, total_tokens
\* and stored pedagogy mode are the same as before the turn.
C5_FailedTurnPersistsNothing ==
    [][turn'.status \in FailedStatuses
       => /\ DOMAIN memory'.sessions = DOMAIN memory.sessions
          /\ \A sid \in DOMAIN memory.sessions :
               Persisted(memory', sid) = Persisted(memory, sid)
      ]_vars

\* C6: a successful turn appends exactly two messages at the end of the
\* resolved session: the user message with the query (and tokens_input when the
\* model reported it), then the assistant message with the post-processed
\* answer (tokens_output when reported, context_ids the ids of the retrieved
\* results in retrieval order, the list the result returns); the messages of
\* every other session are unchanged, at most one whole session being removed.
C6_SuccessAppendsExchange ==
    [][turn'.status = "ok"
       => LET sid == turn'.session_id
              before == MessagesOf(memory, sid)
              after == MessagesOf(memory', sid)
              user == after[Len(before) + 1]
              assistant == after[Len(before) + 2]
          IN /\ Len(after) = Len(before) + 2
             /\ SubSeq(after, 1, Len(before)) = before
             /\ user.role = "user"
             /\ user.content = turn'.query
             /\ "context_ids" \notin DOMAIN user
             /\ IF turn'.tokens_input = None THEN "tokens" \notin DOMAIN user
                ELSE "tokens" \in DOMAIN user /\ user.tokens = Get(turn'.tokens_input)
             /\ assistant.role = "assistant"
             /\ assistant.content = turn'.answer
             /\ turn'.answer = StripReasoningTags(RawAnswer(Get(turn'.result)))
             /\ IF turn'.tokens_output = None THEN "tokens" \notin DOMAIN assistant
                ELSE "tokens" \in DOMAIN assistant
                     /\ assistant.tokens = Get(turn'.tokens_output)
             /\ "context_ids" \in DOMAIN assistant
             /\ assistant.context_ids = turn'.context_ids
             /\ turn'.context_ids = [i \in 1..Len(turn'.results) |-> turn'.results[i].id]
             /\ \A o \in (DOMAIN memory'.sessions) \ {sid} :
                  o \in DOMAIN memory.sessions
                  /\ memory'.sessions[o].messages = memory.sessions[o].messages
             /\ Cardinality((DOMAIN memory.sessions) \ (DOMAIN memory'.sessions)) <= 1
      ]_vars

\* a successful turn on a session that held an exchange, with reported tokens
C6_Witness ==
    /\ turn.status = "ok"
    /\ turn.tokens_input # None
    /\ Len(MessagesOf(memory, turn.session_id)) = 4

C8_HistoryWindow ==
    [][turn'.status = "ok"
       => LET before == MessagesOf(memory, turn'.session_id)
              k == IF ~turn'.include_history \/ turn'.is_new_session THEN 0
                   ELSE Min(Len(before), max_history_messages)
          IN /\ turn'.history_length = k
             /\ turn'.history = SubSeq(before, Len(before) - k + 1, Len(before))
      ]_vars

\* C9: a turn given an explicit pedagogy_mode that validate_mode rejects is not
\* stopped by it (it goes on to the search call), uses "explanatory", stores
\* "explanatory" as the session's mode and reports pedagogy_mode "explanatory".
C9_RejectedModeFallsBack ==
    (turn.status # "none" /\ turn.arg_mode # None /\ ValidateMode(turn.arg_mode) = None)
    => /\ turn.pedagogy_mode = "explanatory"
       /\ turn.session_id \in DOMAIN memory.sessions
       /\ memory.sessions[turn.session_id].pedagogy_mode = "explanatory"
       /\ \E i \in DOMAIN turn.calls : turn.calls[i] = "vector_service.semantic_search"

\* a turn with an unknown mode string succeeded on an existing session
C9_Witness ==
    /\ turn.status = "ok"
    /\ turn.arg_mode = Some("bogus")
    /\ ~turn.is_new_session
    /\ turn.pedagogy_mode = "explanatory"

\* C10: a successful turn given one of the documented modes explanatory,
\* debugging or practice resolves to that mode: it is returned, stored as the
\* session's mode, and its instruction text is part of the prompt.
C10_DocumentedModeUsed ==
    (turn.status = "ok"
     /\ turn.arg_mode \in {Some("explanatory"), Some("debugging"), Some("practice")})
    => /\ turn.pedagogy_mode = Get(turn.arg_mode)
       /\ turn.session_id \in DOMAIN memory.sessions
       /\ memory.sessions[turn.session_id].pedagogy_mode = Get(turn.arg_mode)
       /\ \E i \in DOMAIN turn.messages[1].content :
            turn.messages[1].content[i]
              = "text of " \o GetPromptFilename(Get(turn.arg_mode))

(***************************************************************************)
(* Mode resolution from the stored mode (checked under SpecStoredModes)    *)
(***************************************************************************)
\* C11: a turn without pedagogy_mode resolves the mode as a fixed function of
\* the stored one (socratic and assessment give practice, review gives
\* explanatory, explanatory, debugging and practice give themselves, any other
\* value and an unknown session give explanatory) and leaves the stored mode
\* as it was, so every further turn on the session resolves the same mode.
C11_StoredModeMigration ==
    [][(turn'.status = "ok" /\ turn'.arg_mode = None)
       => LET sid == turn'.session_id
              known == sid \in DOMAIN memory.sessions
              stored == IF known THEN memory.sessions[sid].pedagogy_mode ELSE "unknown"
          IN /\ turn'.pedagogy_mode
                  = IF stored \in {"socratic", "assessment"} THEN "practice"
                    ELSE IF stored \in {"debugging", "practice"} THEN stored
                    ELSE "explanatory"
             /\ known => memory'.sessions[sid].pedagogy_mode = stored
      ]_vars

\* a further turn on a session that holds a retired name and an earlier exchange
C11_Witness ==
    /\ turn.status = "ok"
    /\ turn.arg_mode = None
    /\ turn.pedagogy_mode = "practice"
    /\ turn.session_id \in DOMAIN memory.sessions
    /\ memory.sessions[turn.session_id].pedagogy_mode = "socratic"
    /\ Len(memory.sessions[turn.session_id].messages) = 4

\* C12: the mode a successful turn resolves and returns is a member of the
\* PedagogyMode enumeration (from_string accepts it) and has an instruction
\* resource, whatever the stored mode or the explicit argument was.
C12_ResolvedModeIsEnumMember ==
    turn.status = "ok"
    => /\ FromString(Some(turn.pedagogy_mode)) # None
       /\ GetPromptFilename(turn.pedagogy_mode) \in DOMAIN prompt_files

\* C13: for a session holding n messages m1..mn, get_history(id, k) with
\* 0 < k < n returns exactly m(n-k+1)..mn in stored order, with k absent or
\* k >= n it returns all n messages in stored order, and the stored message
\* sequence is the same after the call as before it.
C13_HistoryWindowOfStore ==
    [][ret'.op = "get_history"
       => LET sid == ret'.session_id
              stored == MessagesOf(memory, sid)
              n == Len(stored)
              k == ret'.arg
          IN /\ MessagesOf(memory', sid) = stored
             /\ (k # None /\ 0 < Get(k) /\ Get(k) < n)
                   => /\ Len(ret'.list) = Get(k)
                      /\ \A i \in 1..Get(k) : ret'.list[i] = stored[n - Get(k) + i]
             /\ (k = None \/ Get(k) >= n) => ret'.list = stored
      ]_vars

\* get_history(id, 2) answered from a session of three messages
C13_Witness ==
    /\ ret.op = "get_history"
    /\ ret.arg = Some(2)
    /\ Len(MessagesOf(memory, ret.session_id)) = 3
    /\ ret.list = SubSeq(MessagesOf(memory, ret.session_id), 2, 3)
    /\ ret.list[1] # ret.list[2]

\* C14: for every session holding n messages and every max_messages >= 0,
\* truncate_session_history(id, max_messages) leaves exactly the newest
\* min(n, max_messages) messages in their original order, returns n minus the
\* number retained, and sets total_tokens to the sum over the retained
\* messages; for an unknown session it returns 0 and creates nothing.
C14_TruncateKeepsNewest ==
    [][ret'.op = "truncate_session_history"
       => LET sid == ret'.session_id
              stored == MessagesOf(memory, sid)
              n == Len(stored)
              keep == Min(n, Get(ret'.arg))
          IN IF sid \in DOMAIN memory.sessions
             THEN /\ sid \in DOMAIN memory'.sessions
                  /\ memory'.sessions[sid].messages = SubSeq(stored, n - keep + 1, n)
                  /\ ret'.count = n - keep
                  /\ memory'.sessions[sid].total_tokens
                       = SumTokens(memory'.sessions[sid].messages)
             ELSE ret'.count = 0 /\ memory' = memory
      ]_vars

\* C15: clear_session(id) returns true exactly when the session existed and
\* false otherwise, leaves the session absent afterwards and every other
\* session (and their order) unchanged; a clear_session that directly follows
\* a clear_session of the same id that returned true returns false.
C15_ClearSession ==
    [][ret'.op = "clear_session"
       => LET sid == ret'.session_id
          IN /\ ret'.flag = (sid \in DOMAIN memory.sessions)
             /\ sid \notin DOMAIN memory'.sessions
             /\ DOMAIN memory'.sessions = DOMAIN memory.sessions \ {sid}
             /\ \A other \in DOMAIN memory'.sessions :
                    memory'.sessions[other] = memory.sessions[other]
             /\ memory'.order = SelectSeq(memory.order, LAMBDA s : s # sid)
             /\ (ret.op = "clear_session" /\ ret.session_id = sid /\ ret.flag)
                   => ~ret'.flag
      ]_vars

\* a session with messages was cleared while another session stayed
C15_Witness ==
    /\ ret.op = "clear_session"
    /\ ret.flag
    /\ ret.removed = {ret.session_id}
    /\ ret.session_id \notin DOMAIN memory.sessions
    /\ \E other \in DOMAIN memory.sessions : Len(memory.sessions[other].messages) > 0

\* the pc values of a thread inside _create_session
CreatingPcs == {"capacity", "oldest", "delete", "insert"}

\* C16: when two requests create sessions concurrently (their _create_session
\* steps interleaved), the store never ends with more than max_sessions
\* sessions, each creation evicts at most one session, and neither creation
\* fails because the other already removed the chosen victim.
C16_ConcurrentCreation ==
    /\ (\A t \in ThreadIds : threads[t].pc \notin CreatingPcs)
          => Cardinality(DOMAIN memory.sessions) <= max_sessions
    /\ \A t \in ThreadIds :
          /\ threads[t].evicted <= 1
          /\ threads[t].error # Some([type |-> "KeyError", at |-> "delete"])

\* how many times message occurs in messages
Occurrences(messages, message) ==
    Cardinality({i \in 1..Len(messages) : messages[i] = message})

\* the message thread t adds
ThreadMessage(t) ==
    MakeMessage(threads[t].role, threads[t].content, threads[t].tokens,
                threads[t].context_ids)

\* C17: when two add_message calls run concurrently (on the same session or
\* on distinct sessions), after both complete every session contains all
\* messages added to it, and each session's total_tokens equals the sum of
\* the token counts of its stored messages.
C17_AddMessageAtomic ==
    (\A t \in ThreadIds : threads[t].pc = "done")
    => /\ \A t \in ThreadIds :
            threads[t].session_id \in DOMAIN memory.sessions
            => Occurrences(memory.sessions[threads[t].session_id].messages,
                           ThreadMessage(t))
                 >= Cardinality({u \in ThreadIds :
                                   /\ threads[u].session_id = threads[t].session_id
                                   /\ ThreadMessage(u) = ThreadMessage(t)})
       /\ \A sid \in DOMAIN memory.sessions :
            memory.sessions[sid].total_tokens = SumTokens(memory.sessions[sid].messages)

\* text[i] lies inside a <reasoning>...</reasoning> span: an opening tag before
\* it and the first closing tag after that opening tag behind it
Enclosed(text, i) ==
    \E o \in 1..(i - 2), c \in (i + 1)..Len(text) :
        /\ IsOpenAt(text, o)
        /\ IsCloseAt(text, c)
        /\ \A h \in (o + 2)..(c - 1) : ~IsCloseAt(text, h)

\* text contains an opening or a closing reasoning tag
HasTag(text) == \E i \in 1..Len(text) : IsOpenAt(text, i) \/ IsCloseAt(text, i)

\* C18: for every model output text, the post-processed answer contains no
\* <reasoning> or </reasoning> tag (in any letter case) and no text that was
\* enclosed in a <reasoning>...</reasoning> span of the input; a text without
\* such tags is returned unchanged except for collapsing runs of 3 or more
\* newlines to 2 and trimming surrounding whitespace.
C18_NoReasoningInAnswer ==
    ret.op = "_strip_reasoning_tags"
    => LET text == Get(ret.arg)
           answer == ret.list
       IN /\ ~HasTag(answer)
          /\ (\A i \in 1..Len(text) : text[i] = "s" => Enclosed(text, i))
               => \A i \in 1..Len(answer) : answer[i] # "s"
          /\ ~HasTag(text) => answer = StripWs(CollapseNewlines(text))

\* the chunk texts of a result list joined by the separator
JoinedChunks(results) ==
    JoinTexts([i \in 1..Len(results) |-> results[i].text], <<"\n", "-", "-", "-", "\n">>)

\* C19: the context block is the retrieved chunk texts joined by the separator
\* and cut to its first max_context_chars characters: its length is
\* min(length of the joined string, max_context_chars), so a joined string of
\* max_context_chars + 1 characters yields exactly max_context_chars
\* characters and one of max_context_chars characters is left uncut; the cut
\* is applied to the joined string, not per chunk.
C19_ContextCut ==
    ret.op = "context_str"
    => LET joined == JoinedChunks(Get(ret.arg))
           block == ret.list
       IN /\ Len(block) = Min(Len(joined), max_context_chars)
          /\ block = SubSeq(joined, 1, Len(block))
          /\ Len(joined) = max_context_chars + 1 => Len(block) = max_context_chars
          /\ Len(joined) = max_context_chars => block = joined

\* two chunks whose joined text is one character too long, cut by one character
C19_Witness ==
    /\ ret.op = "context_str"
    /\ Len(Get(ret.arg)) = 2
    /\ Len(JoinedChunks(Get(ret.arg))) = max_context_chars + 1
    /\ Len(ret.list) = max_context_chars
    /\ \A i \in 1..2 : Len(Get(ret.arg)[i].text) < max_context_chars

\* C20: for a new-session turn whose answer model call succeeded, whatever the
\* title step does (the second model call raising or returning an unusable
\* value, the title not being stored), chat returns normally with the answer
\* and token counts of the answer call, and the two messages of the exchange
\* are the stored messages of the new session.
C20_TitleFailureNeverFailsTurn ==
    [][(turn'.is_new_session /\ turn'.result # None)
       => LET sid == turn'.session_id
              result == Get(turn'.result)
              stored == MessagesOf(memory', sid)
          IN /\ turn'.status = "ok"
             /\ turn'.answer = StripReasoningTags(RawAnswer(result))
             /\ turn'.tokens_input = ResultField(result, "tokens_input")
             /\ turn'.tokens_output = ResultField(result, "tokens_output")
             /\ Len(stored) = 2
             /\ stored[1].role = "user" /\ stored[1].content = turn'.query
             /\ stored[2].role = "assistant" /\ stored[2].content = turn'.answer
      ]_vars

\* a new-session turn whose title call raised: the placeholder title, the
\* turn returned and the exchange stored
C20_Witness ==
    /\ turn.status = "ok"
    /\ turn.is_new_session
    /\ turn.title_call = "raised"
    /\ turn.title = Some(<<"New Chat">>)
    /\ Len(MessagesOf(memory, turn.session_id)) = 2

\* C21: get_history(id, max_messages=0) on a session that holds at least one
\* message returns an empty list.
C21_ZeroWindowReturnsNothing ==
    (/\ ret.op = "get_history"
     /\ ret.arg = Some(0)
     /\ Len(MessagesOf(memory, ret.session_id)) >= 1)
    => ret.list = <<>>

\* the operations of ConversationMemory that only read
ReadOps ==
    {"get_history", "get_formatted_history", "session_exists", "get_session_info",
     "list_sessions", "get_pedagogy_mode"}

\* C22: get_history, get_formatted_history, session_exists, get_session_info,
\* list_sessions and get_pedagogy_mode never create or remove a session; on an
\* unknown id they return the empty sequence, the empty string, false,
\* absent, a list without that id and "explanatory"; the set of stored
\* sessions, their messages, total_tokens and modes are unchanged.
C22_ReadsChangeNothing ==
    [][ret'.op \in ReadOps
       => LET sid == ret'.session_id
          IN /\ DOMAIN memory'.sessions = DOMAIN memory.sessions
             /\ memory'.order = memory.order
             /\ \A s \in DOMAIN memory.sessions : Persisted(memory', s) = Persisted(memory, s)
             /\ ret'.op = "list_sessions"
                  => {ret'.list[i].session_id : i \in 1..Len(ret'.list)}
                       = DOMAIN memory.sessions
             /\ (ret'.op # "list_sessions" /\ sid \notin DOMAIN memory.sessions)
                  => CASE ret'.op = "get_history" -> ret'.list = <<>>
                       [] ret'.op = "get_formatted_history" -> ret'.list = <<>>
                       [] ret'.op = "session_exists" -> ret'.flag = FALSE
                       [] ret'.op = "get_session_info" -> ret'.value = None
                       [] ret'.op = "get_pedagogy_mode" -> ret'.value = Some("explanatory")
      ]_vars

\* the formatted history of an unknown id, asked of a store that holds a
\* session with messages and a mode of its own
C22_Witness ==
    /\ ret.op = "get_formatted_history"
    /\ ret.session_id \notin DOMAIN memory.sessions
    /\ ret.list = <<>>
    /\ \E s \in DOMAIN memory.sessions :
          /\ Len(memory.sessions[s].messages) = 2
          /\ memory.sessions[s].pedagogy_mode = "socratic"

\* C23: set_pedagogy_mode(id, mode) on an unknown id creates the session
\* (after the capacity check, which removes one session from a full store)
\* with no messages and total_tokens 0 and stores the mode as given; on an
\* existing session it changes only that session's mode; add_message leaves
\* the stored mode of an existing session as it is.
C23_SetPedagogyMode ==
    [][/\ ret'.op = "set_pedagogy_mode"
          => LET sid == ret'.session_id
             IN /\ sid \in DOMAIN memory'.sessions
                /\ memory'.sessions[sid].pedagogy_mode = Get(ret'.value)
                /\ IF sid \notin DOMAIN memory.sessions
                   THEN /\ memory'.sessions[sid].messages = <<>>
                        /\ memory'.sessions[sid].total_tokens = 0
                        /\ Cardinality(DOMAIN memory'.sessions) <= max_sessions
                        /\ Cardinality(ret'.removed)
                             = IF Cardinality(DOMAIN memory.sessions) >= max_sessions
                               THEN 1 ELSE 0
                   ELSE /\ DOMAIN memory'.sessions = DOMAIN memory.sessions
                        /\ memory'.sessions[sid]
                             = [memory.sessions[sid] EXCEPT !.pedagogy_mode = Get(ret'.value)]
                        /\ \A o \in DOMAIN memory.sessions \ {sid} :
                              memory'.sessions[o] = memory.sessions[o]
       /\ ret'.op = "add_message"
          => \A s \in DOMAIN memory.sessions \cap DOMAIN memory'.sessions :
                memory'.sessions[s].pedagogy_mode = memory.sessions[s].pedagogy_mode
      ]_vars

\* a value outside the enum stored on a session that holds messages
C23_Witness ==
    /\ ret.op = "set_pedagogy_mode"
    /\ ret.value = Some("legacy")
    /\ ret.session_id \in DOMAIN memory.sessions
    /\ memory.sessions[ret.session_id].pedagogy_mode = "legacy"
    /\ Len(memory.sessions[ret.session_id].messages) >= 1

\* C24: prune_old_sessions(max_age_hours) removes exactly the sessions whose
\* last_accessed is strictly older than the cutoff (the clock reading of the
\* call minus max_age_hours), removes each of them whole, returns the number
\* removed and leaves every other session unchanged.
C24_PruneOldSessions ==
    [][ret'.op = "prune_old_sessions"
       => LET cutoff == now' - Get(ret'.arg)
              old == {s \in DOMAIN memory.sessions :
                        memory.sessions[s].last_accessed < cutoff}
          IN /\ DOMAIN memory'.sessions = (DOMAIN memory.sessions) \ old
             /\ ret'.count = Cardinality(old)
             /\ \A s \in DOMAIN memory'.sessions : memory'.sessions[s] = memory.sessions[s]
             /\ memory'.order = SelectSeq(memory.order, LAMBDA s : s \notin old)
      ]_vars

\* a prune that removed one session and kept one last accessed exactly at the
\* cutoff
C24_Witness ==
    /\ ret.op = "prune_old_sessions"
    /\ ret.count = 1
    /\ Cardinality(ret.removed) = 1
    /\ \E s \in DOMAIN memory.sessions :
          /\ memory.sessions[s].last_accessed = now - Get(ret.arg)
          /\ Len(memory.sessions[s].messages) >= 1

\* C25: get_mode_prompt caches per mode: once a mode's text is cached, every
\* later call for that mode (as enum or as string in any letter case) returns
\* that text without reading the resource, and only clear_cache removes or
\* changes a cached text; when the mode is not cached and the resource is
\* absent the call raises FileNotFoundError and caches nothing, and when the
\* resource is there the call returns its text and caches it.
C25_PromptCache ==
    [][/\ (ret'.op = "get_mode_prompt" /\ ret'.list # <<"ValueError">>)
          => LET mode == IF Get(ret'.arg) = "Debugging" THEN "debugging" ELSE Get(ret'.arg)
                 file == mode \o "_mode_prompt.md"
             IN IF mode \in DOMAIN prompt_cache
                THEN /\ ret'.value = Some(prompt_cache[mode])
                     /\ ~ret'.flag
                     /\ prompt_cache' = prompt_cache
                ELSE IF file \notin DOMAIN prompt_files
                THEN /\ ret'.value = None
                     /\ ret'.list = <<"FileNotFoundError">>
                     /\ prompt_cache' = prompt_cache
                ELSE /\ ret'.value = Some(prompt_files[file])
                     /\ DOMAIN prompt_cache' = DOMAIN prompt_cache \cup {mode}
                     /\ prompt_cache'[mode] = prompt_files[file]
       /\ ret'.op # "clear_cache"
          => \A mode \in DOMAIN prompt_cache :
                mode \in DOMAIN prompt_cache' /\ prompt_cache'[mode] = prompt_cache[mode]
      ]_vars

\* a call with "Debugging" answered from the cache while the resource holds
\* another text
C25_Witness ==
    /\ ret.op = "get_mode_prompt"
    /\ ret.arg = Some("Debugging")
    /\ ~ret.flag
    /\ "debugging" \in DOMAIN prompt_cache
    /\ ret.value = Some(prompt_cache["debugging"])
    /\ "debugging_mode_prompt.md" \in DOMAIN prompt_files
    /\ prompt_files["debugging_mode_prompt.md"] # prompt_cache["debugging"]

\* the calls of a turn to semantic_search, agent_client.chat and add_message
CollaboratorCalls(calls) ==
    SelectSeq(calls, LAMBDA c : c \in {"vector_service.semantic_search",
                                       "agent_client.chat", "memory.add_message"})

\* C26: within one chat turn semantic_search is called exactly once (also when
\* include_history is false), then agent_client.chat once for the answer,
\* then memory.add_message twice, then, only when is_new_session is true,
\* agent_client.chat once more for the title; when semantic_search raises,
\* agent_client.chat is not called, and when the answer call raises,
\* add_message is not called.
C26_CallOrder ==
    turn.status # "none"
    => CollaboratorCalls(turn.calls)
         = CASE turn.status = "vector_error" -> <<"vector_service.semantic_search">>
             [] turn.status = "agent_error"
                  -> <<"vector_service.semantic_search", "agent_client.chat">>
             [] OTHER
                  -> <<"vector_service.semantic_search", "agent_client.chat",
                       "memory.add_message", "memory.add_message">>
                     \o (IF turn.is_new_session THEN <<"agent_client.chat">> ELSE <<>>)

\* a successful new-session turn without history: search, answer, the two
\* stores and the title call
C26_Witness ==
    /\ turn.status = "ok"
    /\ turn.is_new_session
    /\ ~turn.include_history
    /\ Len(CollaboratorCalls(turn.calls)) = 5
    /\ turn.calls[Len(turn.calls)] = "agent_client.chat"

C28_ExchangesAlternate ==
    \A sid \in DOMAIN memory.sessions :
        LET messages == memory.sessions[sid].messages
        IN /\ Len(messages) % 2 = 0
           /\ \A i \in 1..Len(messages) :
                 IF i % 2 = 1
                 THEN messages[i].role = "user"
                 ELSE /\ messages[i].role = "assistant"
                      /\ "context_ids" \in DOMAIN messages[i]

\* a store holding a session of two exchanges and a session a failed turn
\* created without messages
C28_Witness ==
    /\ \E sid \in DOMAIN memory.sessions : Len(memory.sessions[sid].messages) = 4
    /\ \E sid \in DOMAIN memory.sessions : Len(memory.sessions[sid].messages) = 0
    /\ turn.status \in FailedStatuses

\* C29: the successful chat turn that stores a session's first two messages
\* reports is_new_session = true, whatever turns preceded it on that id.
C29_FirstExchangeIsNewSession ==
    [][(turn'.status = "ok" /\ MessagesOf(memory, turn'.session_id) = <<>>)
       => turn'.is_new_session
      ]_vars

\* C30: after a successful new-session chat turn in which the title model
\* call returned a non-empty text, the session's record in memory carries
\* the generated title; a turn on an existing session leaves a stored title
\* as it is.
C30_TitleStored ==
    [][turn'.status = "ok"
       => LET sid == turn'.session_id
          IN IF turn'.is_new_session
             THEN (turn'.title_call = "str" /\ turn'.title # None)
                  => /\ "title" \in DOMAIN memory'.sessions[sid]
                     /\ memory'.sessions[sid].title = Get(turn'.title)
             ELSE "title" \in DOMAIN memory.sessions[sid]
                  => /\ "title" \in DOMAIN memory'.sessions[sid]
                     /\ memory'.sessions[sid].title = memory.sessions[sid].title
      ]_vars

====
